---- MODULE Spec2Model ----
(***************************************************************************)
(* helm-mapkubeapis: the mapping run of pkg/v3/release.go and the rule     *)
(* engine of pkg/common/common.go, as a state machine.                     *)
(*                                                                         *)
(* A run (MapReleaseWithUnSupportedAPIs) reads the latest release version  *)
(* from the release store, decodes its manifest into documents, applies    *)
(* the mapping rules, compares the result with the decoded documents and,  *)
(* when they differ and dry-run is off, marks the old version superseded   *)
(* and creates a new version.                                              *)
(*                                                                         *)
(* Go values are modelled as follows.                                      *)
(*  - a document (map[string]interface{}) is a reference: an index into    *)
(*    heap, whose entry is the record of the map's fields;                 *)
(*  - a slice is a length over the one backing array `backing`: both       *)
(*    origManifest and modifiedManifest start at its first element         *)
(*    (common.go:59 copies the slice header, not the elements);            *)
(*  - a version string is the record of its parts (see SemVer below);      *)
(*  - a manifest text is the sequence of its YAML stream items.            *)
(***************************************************************************)
EXTENDS Integers, Sequences, FiniteSets, TLC

(***************************************************************************)
(* Bounds of the model.                                                    *)
(***************************************************************************)
MaxDocs == 3
MaxRules == 2
MaxRuns == 2
MaxItems == 3

(***************************************************************************)
(* Strings of the program.                                                 *)
(***************************************************************************)
UpgradeDescription == "Kubernetes deprecated API upgrade - DO NOT rollback from this version"
StatusDeployed == "deployed"
StatusSuperseded == "superseded"

(***************************************************************************)
(* golang.org/x/mod/semver, as called at common.go:73, 87 and 91.          *)
(* A version string vMAJOR[.MINOR[.PATCH[-PRERELEASE]]] is the record      *)
(*   v    : whether the text starts with "v",                              *)
(*   nums : the dotted numbers that follow,                                *)
(*   pre  : the numeric identifiers of the pre-release tag (<<>>: none).   *)
(* The empty string is EmptyStr.                                           *)
(***************************************************************************)
EmptyStr == [v |-> FALSE, nums |-> <<>>, pre |-> <<>>]

\* semver.IsValid: "v", then one to three numbers; a pre-release tag only
\* after a full MAJOR.MINOR.PATCH.
IsValid(s) ==
    /\ s.v
    /\ Len(s.nums) \in 1..3
    /\ (s.pre # <<>> => Len(s.nums) = 3)

\* The i-th number of a parsed version; the shorthand forms vMAJOR and
\* vMAJOR.MINOR stand for MINOR = 0 and PATCH = 0.
NumAt(s, i) == IF i <= Len(s.nums) THEN s.nums[i] ELSE 0

compareInt(x, y) == IF x = y THEN 0 ELSE IF x < y THEN -1 ELSE 1

RECURSIVE comparePrereleaseFrom(_, _, _)
comparePrereleaseFrom(x, y, i) ==
    IF i > Len(x) /\ i > Len(y) THEN 0
    ELSE IF i > Len(x) THEN -1
    ELSE IF i > Len(y) THEN 1
    ELSE IF x[i] # y[i] THEN compareInt(x[i], y[i])
    ELSE comparePrereleaseFrom(x, y, i + 1)

\* A version without a pre-release tag is greater than one with a tag.
comparePrerelease(x, y) ==
    IF x = y THEN 0
    ELSE IF x = <<>> THEN 1
    ELSE IF y = <<>> THEN -1
    ELSE comparePrereleaseFrom(x, y, 1)

\* semver.Compare: an invalid version is less than a valid one.
Compare(v, w) ==
    IF ~IsValid(v) /\ ~IsValid(w) THEN 0
    ELSE IF ~IsValid(v) THEN -1
    ELSE IF ~IsValid(w) THEN 1
    ELSE IF compareInt(NumAt(v, 1), NumAt(w, 1)) # 0 THEN compareInt(NumAt(v, 1), NumAt(w, 1))
    ELSE IF compareInt(NumAt(v, 2), NumAt(w, 2)) # 0 THEN compareInt(NumAt(v, 2), NumAt(w, 2))
    ELSE IF compareInt(NumAt(v, 3), NumAt(w, 3)) # 0 THEN compareInt(NumAt(v, 3), NumAt(w, 3))
    ELSE comparePrerelease(v.pre, w.pre)

SemVer(nums) == [v |-> TRUE, nums |-> nums, pre |-> <<>>]

(***************************************************************************)
(* Documents, API identifiers and mapping rules (the records of            *)
(* mapping.Metadata that common.go reads).                                 *)
(***************************************************************************)
ApiVersionFieldName == "apiVersion"
KindFieldName == "kind"

API(group, version, kind) == [Group |-> group, Version |-> version, Kind |-> kind]

Mapping(deprecatedAPI, newAPI, deprecatedIn, removedIn) ==
    [DeprecatedAPI |-> deprecatedAPI, NewAPI |-> newAPI,
     DeprecatedInVersion |-> deprecatedIn, RemovedInVersion |-> removedIn]

\* A decoded document: the two fields the engine reads, and spec, which
\* stands for every other field of the resource.
Document(apiVersion, kind, spec) == [apiVersion |-> apiVersion, kind |-> kind, spec |-> spec]

(***************************************************************************)
(* Manifest text: the sequence of the items of a YAML stream, a "---"      *)
(* separator line or the text of one document. Beside the text of a        *)
(* mapping (DocText) there are the texts yaml.v3 fails on: a document that *)
(* is not a mapping (a list, say: the unmarshal error leaves the value     *)
(* nil), a mapping of which one entry does not fit map[string]interface{}  *)
(* (the unmarshal error comes with the rest of the mapping), and text that *)
(* is not YAML (the parser keeps its error, so every later call of Decode  *)
(* fails the same way).                                                    *)
(***************************************************************************)
Sep == [tag |-> "---"]
DocText(d) == [tag |-> "doc", doc |-> d]
NotAMapping == [tag |-> "list"]
PartlyDecodable(d) == [tag |-> "partial", doc |-> d]
NotYaml == [tag |-> "garbage"]

\* One call of decoder.Decode at position pos of the stream (release.go:125):
\* the decoded value (NilValue when the document is empty), the error and the
\* decoder's next position.
NilValue == [nil |-> TRUE]

\* Mappings written one after another with no "---" line between them are
\* the text of one mapping: GroupEnd is the position after the last of them.
RECURSIVE GroupEnd(_, _)
GroupEnd(text, p) ==
    IF p <= Len(text) /\ text[p].tag = "doc" THEN GroupEnd(text, p + 1) ELSE p

Decode(text, pos) ==
    IF pos > Len(text) THEN [value |-> NilValue, err |-> "EOF", pos |-> pos]
    ELSE LET p == IF text[pos] = Sep THEN pos + 1 ELSE pos IN
         IF p > Len(text) \/ text[p] = Sep
         THEN [value |-> NilValue, err |-> "nil", pos |-> pos + 1]
         ELSE IF text[p] = NotYaml
         THEN [value |-> NilValue, err |-> "yaml: did not find expected node content", pos |-> pos]
         ELSE IF text[p] = NotAMapping
         THEN [value |-> NilValue, err |-> "yaml: unmarshal errors", pos |-> p + 1]
         ELSE IF text[p].tag = "partial"
         THEN [value |-> text[p].doc, err |-> "yaml: unmarshal errors", pos |-> p + 1]
         ELSE IF GroupEnd(text, p) > p + 1
         THEN [value |-> NilValue, err |-> "yaml: mapping key already defined",
               pos |-> GroupEnd(text, p)]
         ELSE [value |-> text[p].doc, err |-> "nil", pos |-> p + 1]

\* An encoder that writes the documents with nothing to part them.
RECURSIVE encoderOutputUnparted(_, _)
encoderOutputUnparted(docs, i) ==
    IF i > Len(docs) THEN <<>>
    ELSE <<DocText(docs[i])>> \o encoderOutputUnparted(docs, i + 1)

\* encodeManifests (release.go:149-168): the encoder writes the documents
\* with a "---" line between them, and line 165 puts one more in front.
RECURSIVE encoderOutput(_, _)
encoderOutput(docs, i) ==
    IF i > Len(docs) THEN <<>>
    ELSE (IF i = 1 THEN <<>> ELSE <<Sep>>) \o <<DocText(docs[i])>> \o encoderOutput(docs, i + 1)

encodeManifests(docs) == <<Sep>> \o encoderOutput(docs, 1)

\* decodeManifests (release.go:119-146) as a function of the text: the loop
\* from position pos on, with the documents gathered so far. A turn that
\* neither moves the decoder nor leaves the loop repeats for ever.
RECURSIVE decodeManifestsFrom(_, _, _)
decodeManifestsFrom(text, pos, manifests) ==
    LET r == Decode(text, pos) IN
    IF r.err = "EOF" THEN [docs |-> manifests, err |-> "nil"]
    ELSE IF r.value = NilValue
    THEN IF r.pos = pos THEN [docs |-> <<>>, err |-> "no return"]
         ELSE decodeManifestsFrom(text, r.pos, manifests)
    ELSE IF r.err # "nil" THEN [docs |-> <<>>, err |-> "failed to unmarshal manifests"]
    ELSE decodeManifestsFrom(text, r.pos, Append(manifests, r.value))

(***************************************************************************)
(* The rule engine, ReplaceManifestUnSupportedAPIs (common.go:58-133).     *)
(***************************************************************************)
\* common.go:82-86: the version the rule is gated on.
apiVersionStr(mapping) ==
    IF mapping.DeprecatedInVersion # EmptyStr
    THEN mapping.DeprecatedInVersion
    ELSE mapping.RemovedInVersion

\* Variant of NotyetDeprecated: a rule gated on the cluster's own version is
\* skipped too.
NotyetDeprecatedOrEqual(mapping, kubeVersion) ==
    Compare(apiVersionStr(mapping), kubeVersion) >= 0

\* common.go:91: the rule is skipped when its version is after the cluster's.
NotyetDeprecated(mapping, kubeVersion) == Compare(apiVersionStr(mapping), kubeVersion) > 0

\* common.go:98, 116, 119: fmt.Sprintf("%v/%v", group, version).
SprintfAPI(api) == api.Group \o "/" \o api.Version

\* Variant of Matches: the kind is not compared.
MatchesApiVersionOnly(manifest, deprecatedAPI) ==
    manifest[ApiVersionFieldName] = SprintfAPI(deprecatedAPI)

\* common.go:107, 118: the test of one document against the deprecated API.
Matches(manifest, deprecatedAPI) ==
    /\ manifest[ApiVersionFieldName] = SprintfAPI(deprecatedAPI)
    /\ manifest[KindFieldName] = deprecatedAPI.Kind

\* common.go:103: the rule removes documents instead of rewriting them.
IsRemoval(supportedAPI) == supportedAPI.Kind = "" \/ supportedAPI.Group = ""

\* common.go:109: append(s[:index], s[index+1:]...) on a slice of length len
\* over the array arr (index counts from 0). The elements after index move
\* one place down in the array itself; the array's last used place keeps
\* its value.
RemoveAt(arr, len, index) ==
    [j \in 1..Len(arr) |-> IF j >= index + 1 /\ j <= len - 1 THEN arr[j + 1] ELSE arr[j]]

\* common.go:106-111: the removal loop. range evaluates the slice once, so
\* index runs over the n places the slice had when the loop began and each
\* element is read from the array as it is at that moment. s[index+1:]
\* panics when index+1 is past the slice's current length.
RECURSIVE RemovalLoop(_, _, _, _, _, _)
RemovalLoop(h, arr, len, index, n, deprecatedAPI) ==
    IF index >= n THEN [backing |-> arr, len |-> len, panic |-> FALSE]
    ELSE IF Matches(h[arr[index + 1]], deprecatedAPI)
         THEN IF index + 1 > len
              THEN [backing |-> arr, len |-> len, panic |-> TRUE]
              ELSE RemovalLoop(h, RemoveAt(arr, len, index), len - 1, index + 1, n, deprecatedAPI)
         ELSE RemovalLoop(h, arr, len, index + 1, n, deprecatedAPI)

\* common.go:120: the assignment to the document's apiVersion field.
SetApiVersion(manifest, newApiVersion) ==
    [manifest EXCEPT ![ApiVersionFieldName] = newApiVersion]

\* common.go:115-123: the rewrite loop over the len elements of the slice;
\* the documents are maps, so the assignment changes the one shared map.
RECURSIVE RewriteLoop(_, _, _, _, _, _)
RewriteLoop(h, arr, len, i, count, mapping) ==
    IF i > len THEN [heap |-> h, count |-> count]
    ELSE IF Matches(h[arr[i]], mapping.DeprecatedAPI)
         THEN RewriteLoop([h EXCEPT ![arr[i]] = SetApiVersion(h[arr[i]], SprintfAPI(mapping.NewAPI))],
                          arr, len, i + 1, count + 1, mapping)
         ELSE RewriteLoop(h, arr, len, i + 1, count, mapping)

\* The documents a slice of length len over arr holds.
Elems(h, arr, len) == [i \in 1..len |-> h[arr[i]]]

\* reflect.DeepEqual of two slices over the same heap (release.go:61).
DeepEqual(h, arr1, len1, arr2, len2) == Elems(h, arr1, len1) = Elems(h, arr2, len2)

\* common.go:78: the rules are taken in the order of the mapping file.
MappingAtReversed(mappings, i) == mappings[Len(mappings) + 1 - i]
MappingAt(mappings, i) == mappings[i]

\* common.go:87: the gating version of the rule is not a semantic version.
InvalidThresholdIgnored(mapping) == FALSE
InvalidThreshold(mapping) == ~IsValid(apiVersionStr(mapping))

\* common.go:79-129: one rule against the slice (arr, len) of maps of h: the
\* slice and the maps after it, the count of line 100 and what became of
\* the rule.
ApplyRule(h, arr, len, mapping, kubeVersion) ==
    IF InvalidThreshold(mapping)
    THEN [heap |-> h, backing |-> arr, len |-> len, count |-> 0, outcome |-> "invalid"]
    ELSE IF NotyetDeprecated(mapping, kubeVersion)
    THEN [heap |-> h, backing |-> arr, len |-> len, count |-> 0, outcome |-> "skipped"]
    ELSE IF IsRemoval(mapping.NewAPI)
    THEN LET r == RemovalLoop(h, arr, len, 0, len, mapping.DeprecatedAPI) IN
         [heap |-> h, backing |-> r.backing, len |-> r.len, count |-> 0,
          outcome |-> IF r.panic THEN "panic" ELSE "removed"]
    ELSE LET r == RewriteLoop(h, arr, len, 1, 0, mapping) IN
         [heap |-> r.heap, backing |-> arr, len |-> len, count |-> r.count,
          outcome |-> "rewritten"]

\* ReplaceManifestUnSupportedAPIs (common.go:58-133) as a function of the
\* documents handed to it, the rules and the cluster version: the documents
\* it returns, or the error.
RECURSIVE ApplyMappings(_, _, _, _, _, _)
ApplyMappings(h, arr, len, mappings, i, kubeVersion) ==
    IF i > Len(mappings) THEN [docs |-> Elems(h, arr, len), err |-> "nil"]
    ELSE LET r == ApplyRule(h, arr, len, MappingAt(mappings, i), kubeVersion) IN
         IF r.outcome \in {"invalid", "panic"} THEN [docs |-> <<>>, err |-> r.outcome]
         ELSE ApplyMappings(r.heap, r.backing, r.len, mappings, i + 1, kubeVersion)

ReplaceManifestUnSupportedAPIs(origManifest, mappings, kubeVersion) ==
    IF ~IsValid(kubeVersion) THEN [docs |-> <<>>, err |-> "invalid"]
    ELSE ApplyMappings(origManifest, [i \in 1..Len(origManifest) |-> i], Len(origManifest),
                       mappings, 1, kubeVersion)

(***************************************************************************)
(* The state.                                                              *)
(***************************************************************************)
VARIABLES
    store,          \* the release store: the records of the release, by version
    clock,          \* the time cfg.Now() returns
    rules,          \* mapMetadata.Mappings, the rules of the mapping file
    kubeVersionStr, \* the cluster's GitVersion
    runs,           \* the number of runs started
    pc,             \* where the current run is
    err,            \* what the run returned ("nil": success)
    dryRun,         \* mapOptions.DryRun
    rel,            \* the release record behind releaseToMap, origRelease and newRelease
    pos,            \* the position of the YAML decoder in the manifest
    turn,           \* history: the parity of the turns the loop of decodeManifests has made
    heap,           \* the documents decoded: heap[r] is the content of the map r
    backing,        \* the array behind origManifest and modifiedManifest
    origLen,        \* len(origManifest)
    modLen,         \* len(modifiedManifest)
    ruleIdx,        \* the rule the loop of common.go:78 is at
    newManifest,    \* the text encodeManifests returned
    reports,        \* the per-rule counts logged at common.go:128
    storeOps,       \* the calls the run made to the store, in order
    startStore,     \* history: the store as it was when the run began
    decoded,        \* history: the documents decodeManifests returned
    last            \* history: the latest rule evaluated, the documents before it and what it did

vars == <<store, clock, rules, kubeVersionStr, runs, pc, err, dryRun, rel, pos, turn, heap,
          backing, origLen, modLen, ruleIdx, newManifest, reports, storeOps, startStore,
          decoded, last>>

ReleaseName == "myrelease"
ReleaseNamespace == "default"

Release(version, manifest, status, description, lastDeployed) ==
    [Name |-> ReleaseName, Namespace |-> ReleaseNamespace, Version |-> version,
     Manifest |-> manifest, Status |-> status, Description |-> description,
     LastDeployed |-> lastDeployed]

NoRelease == [Name |-> "", Namespace |-> "", Version |-> 0, Manifest |-> <<>>,
              Status |-> "", Description |-> "", LastDeployed |-> 0]

NoRule == [rule |-> 0, docs |-> <<>>, outcome |-> "none"]

\* The documents origManifest and modifiedManifest hold now.
OrigDocs == Elems(heap, backing, origLen)
ModifiedDocs == Elems(heap, backing, modLen)

(***************************************************************************)
(* The inputs: the manifest of the deployed release, the mapping file and  *)
(* the cluster version.                                                    *)
(***************************************************************************)
V1_14_0 == SemVer(<<1, 14, 0>>)
V1_16 == SemVer(<<1, 16>>)
V1_16_0 == SemVer(<<1, 16, 0>>)
V1_18_0 == SemVer(<<1, 18, 0>>)
V1_22 == SemVer(<<1, 22>>)
V1_22_0_rc == [v |-> TRUE, nums |-> <<1, 22, 0>>, pre |-> <<1>>]
NoPrefix1_22 == [v |-> FALSE, nums |-> <<1, 22>>, pre |-> <<>>]

ExtDeployment == API("extensions", "v1beta1", "Deployment")
AppsDeployment == API("apps", "v1", "Deployment")
CoreService == API("", "v1", "Service")
NoAPI == API("", "", "")

\* Sequences of at most n documents, each of one of the shapes (apiVersion,
\* kind); the i-th document of the manifest carries spec i.
DocSeqs(shapes, n) ==
    UNION {{[i \in 1..k |-> Document(f[i][1], f[i][2], i)] : f \in [1..k -> shapes]} : k \in 0..n}

\* Sequences of one to n rules.
RuleSeqs(rs, n) == UNION {[1..k -> rs] : k \in 1..n}

\* Manifests with matching, kind-mismatching and already-supported documents
\* in every placement, under lists of removal and rewrite rules that apply.
PlacementShapes ==
    {<<"extensions/v1beta1", "Deployment">>, <<"extensions/v1beta1", "Ingress">>,
     <<"apps/v1", "Deployment">>}
PlacementRules ==
    {Mapping(ExtDeployment, NoAPI, V1_16, EmptyStr),
     Mapping(ExtDeployment, AppsDeployment, V1_16, EmptyStr),
     Mapping(AppsDeployment, NoAPI, EmptyStr, V1_16)}
PlacementInputs ==
    {[text |-> encodeManifests(d), rules |-> r, kube |-> V1_18_0] :
        d \in DocSeqs(PlacementShapes, MaxDocs), r \in RuleSeqs(PlacementRules, MaxRules)}

\* One rule of every form (deprecated API, successor, gating versions)
\* against every cluster version, on a manifest of at most one document.
FormShapes == {<<"extensions/v1beta1", "Deployment">>, <<"v1", "Service">>}
FormRules ==
    {Mapping(d, n, di, ri) :
        d \in {ExtDeployment, CoreService},
        n \in {NoAPI, API("apps", "v1", ""), AppsDeployment, CoreService},
        di \in {EmptyStr, V1_16},
        ri \in {EmptyStr, V1_22, NoPrefix1_22}}
KubeVersions == {V1_14_0, V1_16_0, V1_18_0, V1_22_0_rc, EmptyStr}
FormInputs ==
    {[text |-> encodeManifests(d), rules |-> <<r>>, kube |-> k] :
        d \in {x \in DocSeqs(FormShapes, MaxDocs) : Len(x) <= 1}, r \in FormRules, k \in KubeVersions}

\* Lists of two rules of which the second takes up what the first produces,
\* or comes before the rule that produces what it takes up, or has no valid
\* gating version.
ExtIngress == API("extensions", "v1beta1", "Ingress")
NetBetaIngress == API("networking.k8s.io", "v1beta1", "Ingress")
NetIngress == API("networking.k8s.io", "v1", "Ingress")
ExtToNetBeta == Mapping(ExtIngress, NetBetaIngress, V1_14_0, EmptyStr)
NetBetaToNet == Mapping(NetBetaIngress, NetIngress, V1_16, EmptyStr)
RemoveExtIngress == Mapping(ExtIngress, NoAPI, V1_14_0, EmptyStr)
NoGatingVersion == Mapping(NetBetaIngress, NetIngress, EmptyStr, NoPrefix1_22)
ChainShapes ==
    {<<"extensions/v1beta1", "Ingress">>, <<"networking.k8s.io/v1beta1", "Ingress">>,
     <<"extensions/v1beta1", "Deployment">>}
ChainRules ==
    {<<ExtToNetBeta, NetBetaToNet>>, <<NetBetaToNet, ExtToNetBeta>>,
     <<ExtToNetBeta, NoGatingVersion>>, <<RemoveExtIngress, NoGatingVersion>>}
ChainInputs ==
    {[text |-> encodeManifests(d), rules |-> r, kube |-> V1_18_0] :
        d \in DocSeqs(ChainShapes, MaxDocs), r \in ChainRules}

\* Manifest texts of at most MaxItems items, well-formed or not: with
\* and without the leading "---", with empty documents, with mappings that
\* run into each other and with the documents yaml.v3 fails on. The
\* document at item p carries spec p.
StreamItems(p) ==
    {Sep, DocText(Document("extensions/v1beta1", "Deployment", p)), NotAMapping, NotYaml,
     PartlyDecodable(Document("extensions/v1beta1", "Deployment", p))}
StreamTexts ==
    UNION {{t \in [1..k -> UNION {StreamItems(p) : p \in 1..k}] :
                \A p \in 1..k : t[p] \in StreamItems(p)} : k \in 0..MaxItems}
StreamInputs ==
    {[text |-> t, rules |-> <<Mapping(ExtDeployment, NoAPI, V1_16, EmptyStr)>>, kube |-> V1_18_0] :
        t \in StreamTexts}

Inputs == PlacementInputs \cup FormInputs \cup ChainInputs \cup StreamInputs

Init ==
    /\ \E in \in Inputs :
        /\ rules = in.rules
        /\ kubeVersionStr = in.kube
        /\ store = <<Release(1, in.text, StatusDeployed, "Install complete", 0)>>
    /\ clock = 1
    /\ runs = 0
    /\ pc = "idle"
    /\ err = "nil"
    /\ dryRun = FALSE
    /\ rel = NoRelease
    /\ pos = 1
    /\ turn = 0
    /\ heap = <<>>
    /\ backing = <<>>
    /\ origLen = 0
    /\ modLen = 0
    /\ ruleIdx = 0
    /\ newManifest = <<>>
    /\ reports = <<>>
    /\ storeOps = <<>>
    /\ startStore = store
    /\ decoded = <<>>
    /\ last = NoRule

(***************************************************************************)
(* The release store (cfg.Releases), as release.go calls it.               *)
(***************************************************************************)
\* cfg.Releases.Last (release.go:111): the record of the highest version.
Last(st) == st[Len(st)]

\* cfg.Releases.Update (release.go:89): replaces the record of r's version.
Update(st, r) == [i \in 1..Len(st) |-> IF st[i].Version = r.Version THEN r ELSE st[i]]

\* cfg.Releases.Create (release.go:103): adds the record r.
Create(st, r) == Append(st, r)

(***************************************************************************)
(* The run, MapReleaseWithUnSupportedAPIs (release.go:37-83).              *)
(***************************************************************************)
Return(e) == pc' = "returned" /\ err' = e

\* release.go:37-48: a run begins. It gets the Helm configuration and the
\* latest version of the release; either can fail.
StartRun ==
    /\ pc \in {"idle", "returned"}
    /\ runs < MaxRuns
    /\ runs' = runs + 1
    /\ clock' = clock + 1
    /\ \E dry \in BOOLEAN : dryRun' = dry
    /\ heap' = <<>> /\ backing' = <<>> /\ origLen' = 0 /\ modLen' = 0
    /\ pos' = 1 /\ turn' = 0 /\ ruleIdx' = 0 /\ newManifest' = <<>>
    /\ reports' = <<>> /\ storeOps' = <<>> /\ decoded' = <<>> /\ last' = NoRule
    /\ startStore' = store
    /\ \E failure \in {"none", "failed to get Helm action configuration",
                       "failed to get release latest version"} :
        IF failure = "none"
        THEN rel' = Last(store) /\ pc' = "decode" /\ err' = "nil"
        ELSE rel' = NoRelease /\ Return(failure)
    /\ UNCHANGED <<store, rules, kubeVersionStr>>

\* release.go:123-143: one turn of the loop of decodeManifests; at the end of
\* the stream the documents go to ReplaceManifestUnSupportedAPIs.
decodeManifests ==
    /\ pc = "decode"
    /\ LET r == Decode(rel.Manifest, pos) IN
        IF r.err = "EOF"
        THEN /\ pc' = "replace"
             /\ decoded' = OrigDocs
             /\ turn' = 0
             /\ UNCHANGED <<err, pos, heap, backing, origLen>>
        ELSE IF r.value = NilValue
        THEN /\ pos' = r.pos
             /\ turn' = 1 - turn
             /\ UNCHANGED <<pc, err, heap, backing, origLen, decoded>>
        ELSE IF r.err # "nil"
        THEN /\ Return("failed to unmarshal manifests")
             /\ pos' = r.pos
             /\ turn' = 0
             /\ UNCHANGED <<heap, backing, origLen, decoded>>
        ELSE /\ pos' = r.pos
             /\ turn' = 1 - turn
             /\ heap' = Append(heap, r.value)
             /\ backing' = Append(backing, Len(heap) + 1)
             /\ origLen' = origLen + 1
             /\ UNCHANGED <<pc, err, decoded>>
    /\ UNCHANGED <<store, clock, rules, kubeVersionStr, runs, dryRun, rel, modLen,
                   ruleIdx, newManifest, reports, storeOps, startStore, last>>

\* common.go:59-75: modifiedManifest becomes the slice origManifest; the
\* mapping file is loaded and the cluster version fetched and validated.
LoadAndGetVersion ==
    /\ pc = "replace"
    /\ modLen' = origLen
    /\ \E failure \in {"none", "Failed to load mapping file", "kubernetes cluster unreachable"} :
        IF failure # "none" THEN Return(failure) /\ UNCHANGED ruleIdx
        ELSE IF ~IsValid(kubeVersionStr)
        THEN Return("Failed to get Kubernetes server version") /\ UNCHANGED ruleIdx
        ELSE pc' = "rules" /\ ruleIdx' = 1 /\ UNCHANGED err
    /\ UNCHANGED <<store, clock, rules, kubeVersionStr, runs, dryRun, rel, pos, turn, heap,
                   backing, origLen, newManifest, reports, storeOps, startStore, decoded, last>>

\* common.go:78-130: one turn of the loop over the rules.
ApplyMapping ==
    /\ pc = "rules"
    /\ ruleIdx <= Len(rules)
    /\ LET r == ApplyRule(heap, backing, modLen, MappingAt(rules, ruleIdx), kubeVersionStr) IN
        /\ heap' = r.heap
        /\ backing' = r.backing
        /\ modLen' = r.len
        /\ reports' = IF r.count > 0
                      THEN Append(reports, [rule |-> ruleIdx, count |-> r.count])
                      ELSE reports
        /\ last' = [rule |-> ruleIdx, docs |-> ModifiedDocs, outcome |-> r.outcome]
        /\ IF r.outcome = "invalid"
           THEN /\ Return("Failed to get the deprecated or removed Kubernetes version for API")
                /\ UNCHANGED ruleIdx
           ELSE IF r.outcome = "panic"
           THEN Return("panic: slice bounds out of range") /\ UNCHANGED ruleIdx
           ELSE ruleIdx' = ruleIdx + 1 /\ UNCHANGED <<pc, err>>
    /\ UNCHANGED <<store, clock, rules, kubeVersionStr, runs, dryRun, rel, pos, turn, origLen,
                   newManifest, storeOps, startStore, decoded>>

\* Variant of NeedsUpdate: the dry-run flag is not read.
NeedsUpdateIgnoringDryRun(equal, dry) == ~equal

\* release.go:61-68: the release is updated when the two manifests are not
\* equal and the run is not a dry run.
NeedsUpdate(equal, dry) == ~equal /\ ~dry

\* common.go:132 and release.go:56-82: the engine returns modifiedManifest;
\* the run compares it with origManifest and, unless they are equal or the
\* run is a dry run, encodes it for updateRelease.
CheckChanged ==
    /\ pc = "rules"
    /\ ruleIdx > Len(rules)
    /\ IF NeedsUpdate(DeepEqual(heap, backing, modLen, backing, origLen), dryRun)
       THEN /\ newManifest' = encodeManifests(ModifiedDocs)
            /\ pc' = "update"
            /\ UNCHANGED err
       ELSE Return("nil") /\ UNCHANGED newManifest
    /\ UNCHANGED <<store, clock, rules, kubeVersionStr, runs, dryRun, rel, pos, turn, heap,
                   backing, origLen, modLen, ruleIdx, reports, storeOps, startStore, decoded, last>>

\* Variant of Supersede: the status is left as it is.
SupersedeNothing(r) == r

\* release.go:88: the old version gets the status superseded.
Supersede(r) == [r EXCEPT !.Status = StatusSuperseded]

\* Variant of AfterUpdate: the error of the update is not looked at.
AfterUpdateIgnoringError(ok) == "create"

\* release.go:89-91: updateRelease returns when the store refused the update
\* and goes on to the create when it did not.
AfterUpdate(ok) == IF ok THEN "create" ELSE "returned"

\* Variant of NewRelease: the time of the old version is kept.
NewReleaseKeepingTime(r, manifest, now) ==
    [r EXCEPT !.Manifest = manifest,
              !.Description = UpgradeDescription,
              !.Version = r.Version + 1,
              !.Status = StatusDeployed]

\* release.go:96-101: the new version, written into the record of the old.
NewRelease(r, manifest, now) ==
    [r EXCEPT !.Manifest = manifest,
              !.Description = UpgradeDescription,
              !.LastDeployed = now,
              !.Version = r.Version + 1,
              !.Status = StatusDeployed]

\* Variant of AfterFailedCreate: the old version is put back to deployed.
AfterFailedCreateRollback(st, r) ==
    [i \in 1..Len(st) |->
        IF st[i].Version = r.Version - 1 THEN [st[i] EXCEPT !.Status = StatusDeployed] ELSE st[i]]

\* release.go:103-105: a refused create is returned as the error; the store
\* is left as the refused create left it.
AfterFailedCreate(st, r) == st

\* release.go:87-92: updateRelease marks the release superseded and updates
\* it in the store; the store can refuse.
updateReleaseUpdate ==
    /\ pc = "update"
    /\ rel' = Supersede(rel)
    /\ \E ok \in BOOLEAN :
        /\ storeOps' = Append(storeOps, [op |-> "Update", version |-> rel.Version, ok |-> ok])
        /\ store' = IF ok THEN Update(store, rel') ELSE store
        /\ pc' = AfterUpdate(ok)
        /\ err' = IF pc' = "returned" THEN "failed to update release version" ELSE err
    /\ UNCHANGED <<clock, rules, kubeVersionStr, runs, dryRun, pos, turn, heap, backing, origLen,
                   modLen, ruleIdx, newManifest, reports, startStore, decoded, last>>

\* release.go:96-107: newRelease is the same record as origRelease; it gets
\* the new manifest, description, time, version and status and is created in
\* the store; the store can refuse.
updateReleaseCreate ==
    /\ pc = "create"
    /\ rel' = NewRelease(rel, newManifest, clock)
    /\ \E ok \in BOOLEAN :
        /\ storeOps' = Append(storeOps, [op |-> "Create", version |-> rel'.Version, ok |-> ok])
        /\ IF ok
           THEN store' = Create(store, rel') /\ Return("nil")
           ELSE /\ store' = AfterFailedCreate(store, rel')
                /\ Return("failed to create new release version")
    /\ UNCHANGED <<clock, rules, kubeVersionStr, runs, dryRun, pos, turn, heap, backing, origLen,
                   modLen, ruleIdx, newManifest, reports, startStore, decoded, last>>

Next ==
    \/ StartRun
    \/ decodeManifests
    \/ LoadAndGetVersion
    \/ ApplyMapping
    \/ CheckChanged
    \/ updateReleaseUpdate
    \/ updateReleaseCreate

Spec == Init /\ [][Next]_vars

\* The run is one sequential program: as long as it has a next step it
\* takes it.
LiveSpec == Init /\ [][Next]_vars /\ WF_vars(Next)

(***************************************************************************)
(* Vocabulary of the properties.                                           *)
(***************************************************************************)
\* The engine has returned modifiedManifest to the run (common.go:132).
EngineReturned == ruleIdx > Len(rules) /\ pc # "rules"

\* The latest rule has just been evaluated and the loop goes on: last.docs
\* are the documents before that rule and ModifiedDocs those after it.
AfterRule == pc = "rules" /\ last.rule >= 1 /\ ruleIdx = last.rule + 1

\* The latest rule was applied to the documents (not skipped, not rejected).
RuleApplied == last.outcome \in {"removed", "rewritten", "panic"}

\* The gating version of a rule: deprecatedInVersion when it is given,
\* removedInVersion otherwise.
Threshold(m) ==
    IF m.DeprecatedInVersion = EmptyStr THEN m.RemovedInVersion ELSE m.DeprecatedInVersion

\* Semantic-version precedence: major, then minor, then patch, and a
\* pre-release before its release.
PreReleaseLessEq(p, q) ==
    \/ p = q
    \/ p # <<>> /\ q = <<>>
    \/ p # <<>> /\ q # <<>> /\ p[1] < q[1]

SemverLessEq(a, b) ==
    LET x == <<NumAt(a, 1), NumAt(a, 2), NumAt(a, 3)>>
        y == <<NumAt(b, 1), NumAt(b, 2), NumAt(b, 3)>>
    IN \/ x[1] < y[1]
       \/ x[1] = y[1] /\ x[2] < y[2]
       \/ x[1] = y[1] /\ x[2] = y[2] /\ x[3] < y[3]
       \/ x = y /\ PreReleaseLessEq(a.pre, b.pre)

\* A document has exactly the apiVersion "group/version" and the kind of api.
ExactMatch(doc, api) ==
    /\ doc.apiVersion = api.Group \o "/" \o api.Version
    /\ doc.kind = api.Kind

\* The documents of ds that do not match api, in their order.
NonMatching(ds, api) ==
    LET keep(d) == ~ExactMatch(d, api) IN SelectSeq(ds, keep)

\* No rule that applies at this cluster version matches a decoded document.
NoRuleMatches ==
    \A i \in 1..Len(rules) : \A j \in 1..Len(decoded) :
        (IsValid(Threshold(rules[i])) /\ SemverLessEq(Threshold(rules[i]), kubeVersionStr))
            => ~ExactMatch(decoded[j], rules[i].DeprecatedAPI)

\* The version the run read from the store.
OldRelease == startStore[Len(startStore)]

\* The store the run began with, the old version marked superseded.
StartStoreSuperseded ==
    [i \in 1..Len(startStore) |->
        IF startStore[i].Version = OldRelease.Version
        THEN [startStore[i] EXCEPT !.Status = "superseded"]
        ELSE startStore[i]]

Deployed(st) == {i \in 1..Len(st) : st[i].Status = "deployed"}

(***************************************************************************)
(* C1. Every run with dry-run off in which the rules rewrote or removed a  *)
(* document (rewrites only, removals only, or both) updates the old        *)
(* version in the store and then creates the new one.                      *)
(***************************************************************************)
C1_ChangedRunTransitions ==
    (pc = "returned" /\ EngineReturned /\ ~dryRun /\ ModifiedDocs # decoded)
        => /\ Len(storeOps) >= 1
           /\ storeOps[1].op = "Update"
           /\ storeOps[1].ok => (Len(storeOps) = 2 /\ storeOps[2].op = "Create")

(***************************************************************************)
(* C2. A removal rule that applies returns exactly the documents that do   *)
(* not match it, each as it was, in their order, wherever the matching     *)
(* documents stand.                                                        *)
(***************************************************************************)
C2_RemovalKeepsExactlyNonMatching ==
    (AfterRule /\ last.outcome = "removed" /\ rules[last.rule].NewAPI = NoAPI)
        => ModifiedDocs = NonMatching(last.docs, rules[last.rule].DeprecatedAPI)

C4_AppliedIffThresholdReached ==
    LET m == rules[last.rule]
        reached == SemverLessEq(Threshold(m), kubeVersionStr)
    IN (last.rule >= 1 /\ IsValid(Threshold(m)))
        => /\ RuleApplied <=> reached
           /\ last.outcome = "skipped" <=> ~reached
           /\ (AfterRule /\ ~reached) => ModifiedDocs = last.docs
           /\ (reached /\ \E i \in 1..Len(last.docs) : ExactMatch(last.docs[i], m.DeprecatedAPI))
                => ModifiedDocs # last.docs

C4_Witness ==
    /\ AfterRule
    /\ Threshold(rules[last.rule]) = V1_16
    /\ kubeVersionStr = V1_16_0
    /\ last.outcome = "rewritten"
    /\ ModifiedDocs # last.docs

(***************************************************************************)
(* C5. The run calls the store only when the rules changed the documents   *)
(* and dry-run is off: in a dry run, and in a run where no rule matches a  *)
(* document, the store stays as it was, and the run succeeds once the      *)
(* engine has returned.                                                    *)
(***************************************************************************)
C5_StoreCalledOnlyWhenChangedAndNotDryRun ==
    /\ storeOps # <<>> => (~dryRun /\ EngineReturned /\ ModifiedDocs # decoded)
    /\ (pc # "idle" /\ (dryRun \/ NoRuleMatches))
        => /\ store = startStore
           /\ storeOps = <<>>
           /\ (pc = "returned" /\ EngineReturned) => err = "nil"

C5_Witness ==
    /\ pc = "returned" /\ EngineReturned
    /\ dryRun
    /\ ModifiedDocs # decoded
    /\ err = "nil"
    /\ store = startStore

(***************************************************************************)
(* C6. When the store refuses the create of the new version after it took  *)
(* the update of the old one, updateRelease returns the error, calls the   *)
(* store no more (no retry, no rollback), and the store holds the old      *)
(* version as superseded and no deployed version.                          *)
(***************************************************************************)
C6_FailedCreateLeavesNoDeployedVersion ==
    (Len(storeOps) >= 2 /\ storeOps[2].op = "Create" /\ ~storeOps[2].ok)
        => /\ pc = "returned"
           /\ err = "failed to create new release version"
           /\ storeOps = <<[op |-> "Update", version |-> OldRelease.Version, ok |-> TRUE],
                           [op |-> "Create", version |-> OldRelease.Version + 1, ok |-> FALSE]>>
           /\ store = StartStoreSuperseded
           /\ Deployed(store) = {}

C6_Witness ==
    /\ Len(storeOps) = 2 /\ storeOps[2].op = "Create" /\ ~storeOps[2].ok
    /\ storeOps[1].ok
    /\ OldRelease.Status = "deployed"
    /\ store[Len(store)].Status = "superseded"

(***************************************************************************)
(* C7. updateRelease calls the store's create only after the update that   *)
(* marks the old version superseded has succeeded; when the update is      *)
(* refused it returns the error, create is not called and the store holds  *)
(* no new version.                                                         *)
(***************************************************************************)
C7_CreateOnlyAfterUpdateSucceeded ==
    /\ \A i \in 1..Len(storeOps) :
        storeOps[i].op = "Create"
            => (i = 2 /\ storeOps[1] = [op |-> "Update", version |-> OldRelease.Version, ok |-> TRUE])
    /\ pc = "create" => (storeOps = <<[op |-> "Update", version |-> OldRelease.Version, ok |-> TRUE]>>
                         /\ store = StartStoreSuperseded)
    /\ (Len(storeOps) >= 1 /\ ~storeOps[1].ok)
        => /\ pc = "returned"
           /\ err = "failed to update release version"
           /\ Len(storeOps) = 1
           /\ store = startStore

C7_Witness ==
    /\ Len(storeOps) = 1 /\ storeOps[1].op = "Update" /\ ~storeOps[1].ok
    /\ pc = "returned"
    /\ Len(store) = Len(startStore)

(***************************************************************************)
(* C8. From a store whose latest version is its only deployed version, in  *)
(* every state during and after any number of runs, failed updates and     *)
(* creates included, at most one version is deployed, and each version     *)
(* created is numbered one more than the version it was made from.         *)
(***************************************************************************)
C8_AtMostOneDeployedVersionsByOne ==
    /\ Cardinality(Deployed(store)) <= 1
    /\ \A i \in 2..Len(store) : store[i].Version = store[i - 1].Version + 1
    /\ \A i \in 1..Len(storeOps) :
        (storeOps[i].op = "Create" /\ storeOps[i].ok)
            => /\ store[Len(store)].Version = OldRelease.Version + 1
               /\ Len(store) = Len(startStore) + 1

C8_Witness ==
    /\ Len(store) = 3
    /\ Deployed(store) = {3}
    /\ store[1].Status = "superseded" /\ store[2].Status = "superseded"

(***************************************************************************)
(* C9. After a successful transition of a release at version v the store   *)
(* holds the old record, version v, superseded, with its manifest, and a   *)
(* new record of the same name and namespace: version v+1, deployed, the   *)
(* newly encoded manifest, the fixed upgrade description and the store's   *)
(* current time.                                                           *)
(***************************************************************************)
C9_TransitionRecords ==
    (Len(storeOps) = 2 /\ storeOps[2].op = "Create" /\ storeOps[2].ok)
        => /\ pc = "returned" /\ err = "nil"
           /\ store = Append(StartStoreSuperseded,
                             [Name |-> OldRelease.Name,
                              Namespace |-> OldRelease.Namespace,
                              Version |-> OldRelease.Version + 1,
                              Manifest |-> newManifest,
                              Status |-> "deployed",
                              Description |-> UpgradeDescription,
                              LastDeployed |-> clock])
           /\ newManifest = encodeManifests(ModifiedDocs)

C9_Witness ==
    /\ Len(storeOps) = 2 /\ storeOps[2].op = "Create" /\ storeOps[2].ok
    /\ Len(store) = 2
    /\ store[1].Status = "superseded" /\ store[1].Manifest = startStore[1].Manifest
    /\ store[2].Status = "deployed" /\ store[2].Version = 2
    /\ store[2].LastDeployed > store[1].LastDeployed

(***************************************************************************)
(* C10. A rule removes documents exactly when its newAPI has neither a     *)
(* group nor a kind; a rule that applies and has a group or a kind in its  *)
(* newAPI rewrites the matching documents and removes none. Scenario A: a  *)
(* Deployment document of extensions/v1beta1 under the rule whose newAPI   *)
(* is {group: apps, version: v1}, at cluster version v1.18.0, is kept as   *)
(* apps/v1 with its spec.                                                  *)
(***************************************************************************)
ScenarioA ==
    /\ decoded = <<[apiVersion |-> "extensions/v1beta1", kind |-> "Deployment", spec |-> 1]>>
    /\ rules = <<[DeprecatedAPI |-> [Group |-> "extensions", Version |-> "v1beta1", Kind |-> "Deployment"],
                  NewAPI |-> [Group |-> "apps", Version |-> "v1", Kind |-> ""],
                  DeprecatedInVersion |-> V1_16,
                  RemovedInVersion |-> EmptyStr]>>
    /\ kubeVersionStr = V1_18_0

C10_RemovalOnlyWhenNoSuccessor ==
    LET m == rules[last.rule] IN
    /\ (last.rule >= 1 /\ RuleApplied)
        => /\ (m.NewAPI.Group # "" \/ m.NewAPI.Kind # "")
                => /\ last.outcome = "rewritten"
                   /\ Len(ModifiedDocs) = Len(last.docs)
           /\ (m.NewAPI.Group = "" /\ m.NewAPI.Kind = "") => last.outcome \in {"removed", "panic"}
    /\ (ScenarioA /\ EngineReturned)
        => ModifiedDocs = <<[apiVersion |-> "apps/v1", kind |-> "Deployment", spec |-> 1]>>

(***************************************************************************)
(* Vocabulary of C11-C19.                                                  *)
(***************************************************************************)
\* The documents the latest rule worked on that are no longer among the
\* documents as they were (removed or changed); a manifest holds no two
\* equal documents, every document carrying its own spec.
Affected(i) == \A j \in 1..Len(ModifiedDocs) : ModifiedDocs[j] # last.docs[i]

\* The API string of a rule side as the mapping file's format has it: the
\* bare version for the core group, "group/version" otherwise.
APIString(api) == IF api.Group = "" THEN api.Version ELSE api.Group \o "/" \o api.Version

(***************************************************************************)
(* C11. The API string of a deprecatedAPI with an empty group is the bare  *)
(* version: an applied rule with an empty group, version V and kind K      *)
(* matches (rewrites or removes) exactly the documents whose apiVersion is *)
(* V and whose kind is K. With a group the string is "group/version", and  *)
(* a document of another apiVersion or kind is left as it is.              *)
(***************************************************************************)
C11_CoreGroupIsBareVersion ==
    (last.rule >= 1 /\ RuleApplied /\ last.outcome # "panic")
        => LET api == rules[last.rule].DeprecatedAPI IN
           \A i \in 1..Len(last.docs) :
               LET hit == /\ last.docs[i].apiVersion = APIString(api)
                          /\ last.docs[i].kind = api.Kind
               IN /\ api.Group = "" => (hit <=> Affected(i))
                  /\ (api.Group # "" /\ ~hit) => ~Affected(i)

\* Rule m rewrites documents to what rule n takes up.
Produces(m, n) ==
    /\ m.NewAPI.Group \o "/" \o m.NewAPI.Version
           = n.DeprecatedAPI.Group \o "/" \o n.DeprecatedAPI.Version
    /\ m.DeprecatedAPI.Kind = n.DeprecatedAPI.Kind

(***************************************************************************)
(* C12. Idempotence: ReplaceManifestUnSupportedAPIs applied a second time, *)
(* with the same rules and cluster version, to the documents a first       *)
(* application returned, returns the same documents. Stated for the rule   *)
(* lists in which no rule rewrites to what a rule of the list takes up: in *)
(* the others the second pass differs by the order of application (C13).   *)
(***************************************************************************)
C12_SecondApplicationChangesNothing ==
    (EngineReturned /\ \A i, j \in 1..Len(rules) : ~Produces(rules[i], rules[j]))
        => ReplaceManifestUnSupportedAPIs(ModifiedDocs, rules, kubeVersionStr)
               = [docs |-> ModifiedDocs, err |-> "nil"]

\* A rule both the mapping file's format and the engine take for a rewrite
\* (its newAPI has a group and a kind) or for a removal (it has neither).
RewriteRule(m) == m.NewAPI.Group # "" /\ m.NewAPI.Kind # ""
RemovalRule(m) == m.NewAPI.Group = "" /\ m.NewAPI.Kind = ""

\* The rule applies at the cluster version.
Applicable(m) ==
    /\ IsValid(Threshold(m)) /\ IsValid(kubeVersionStr)
    /\ SemverLessEq(Threshold(m), kubeVersionStr)

\* The second rule of the list has just been applied after the first:
\* decoded are the documents before the first rule, last.docs those between
\* the two and ModifiedDocs those after the second.
AfterSecondRule ==
    /\ last.rule = 2 /\ last.outcome \in {"removed", "rewritten"}
    /\ Applicable(rules[1]) /\ Applicable(rules[2])

\* The count the report of rule k gives, 0 when there is no report.
ReportedCount(k) ==
    IF \E n \in 1..Len(reports) : reports[n].rule = k
    THEN reports[CHOOSE n \in 1..Len(reports) : reports[n].rule = k].count
    ELSE 0

(***************************************************************************)
(* C13. The rules are applied in the order of the mapping file, each to    *)
(* the documents as the earlier rules left them. With two applicable       *)
(* rules: when the first rewrites to the API the second deprecates (same   *)
(* kind), the second rewrites those documents further; when the second     *)
(* rewrites to the API the first deprecates, the first has not seen them   *)
(* and they come out with the second rule's API; and the documents the     *)
(* first rule removed are neither in the output nor counted by the second. *)
(***************************************************************************)
C13_RulesAppliedInFileOrder ==
    AfterSecondRule =>
        LET first == rules[1]
            second == rules[2]
            to == second.NewAPI.Group \o "/" \o second.NewAPI.Version
        IN
        /\ (RewriteRule(first) /\ RewriteRule(second) /\ Produces(first, second)
                /\ ~Produces(second, second))
            => /\ Len(ModifiedDocs) = Len(decoded)
               /\ \A i \in 1..Len(decoded) :
                    ExactMatch(decoded[i], first.DeprecatedAPI)
                        => ModifiedDocs[i] = [decoded[i] EXCEPT !.apiVersion = to]
        /\ (RewriteRule(second) /\ Produces(second, first) /\ ~Produces(first, second))
            => \A i \in 1..Len(decoded) :
                    (/\ ExactMatch(decoded[i], second.DeprecatedAPI)
                     /\ ~ExactMatch(decoded[i], first.DeprecatedAPI))
                        => \E j \in 1..Len(ModifiedDocs) :
                                ModifiedDocs[j] = [decoded[i] EXCEPT !.apiVersion = to]
        /\ (RemovalRule(first) /\ RewriteRule(second)
                /\ first.DeprecatedAPI = second.DeprecatedAPI)
            => /\ \A i \in 1..Len(decoded) :
                    (\A k \in 1..Len(last.docs) : last.docs[k] # decoded[i])
                        => \A j \in 1..Len(ModifiedDocs) : ModifiedDocs[j].spec # decoded[i].spec
               /\ ReportedCount(2) = Cardinality({k \in 1..Len(last.docs) :
                                                    ModifiedDocs[k] # last.docs[k]})

C13_Witness ==
    /\ AfterSecondRule
    /\ RewriteRule(rules[1]) /\ RewriteRule(rules[2]) /\ Produces(rules[1], rules[2])
    /\ \E i \in 1..Len(decoded) :
        /\ decoded[i].apiVersion = "extensions/v1beta1"
        /\ last.docs[i].apiVersion = "networking.k8s.io/v1beta1"
        /\ ModifiedDocs[i].apiVersion = "networking.k8s.io/v1"

(***************************************************************************)
(* C14. A data error aborts the run with an error and without a call to    *)
(* the store. With an invalid cluster version the run fails before any     *)
(* rule is evaluated. A rule whose selected gating version is invalid      *)
(* fails the run when the rule loop reaches it, whether or not a document  *)
(* matches it and whether or not earlier rules changed documents; the loop *)
(* never goes past it.                                                     *)
(***************************************************************************)
C14_DataErrorsAbortBeforeStore ==
    /\ ~IsValid(kubeVersionStr)
        => /\ pc \notin {"rules", "update", "create"}
           /\ last.rule = 0
           /\ storeOps = <<>> /\ store = startStore
           /\ pc = "returned" => err # "nil"
    /\ \A k \in 1..Len(rules) :
        ~IsValid(Threshold(rules[k]))
            => /\ ruleIdx <= k
               /\ pc \notin {"update", "create"}
               /\ storeOps = <<>> /\ store = startStore
               /\ last.rule = k
                    => /\ last.outcome = "invalid"
                       /\ pc = "returned"
                       /\ err = "Failed to get the deprecated or removed Kubernetes version for API"

C14_Witness ==
    /\ last.rule = 2 /\ last.outcome = "invalid"
    /\ ~IsValid(Threshold(rules[2]))
    /\ last.docs # decoded
    /\ \A i \in 1..Len(last.docs) : ~ExactMatch(last.docs[i], rules[2].DeprecatedAPI)
    /\ pc = "returned" /\ err # "nil" /\ storeOps = <<>>

\* The manifest text the run reads, and whether Decode fails on one of the
\* items it has gone past.
ManifestRead == startStore[Len(startStore)].Manifest
FailedDecodeBehind ==
    \E p \in 1..Len(ManifestRead) :
        /\ p < pos
        /\ ManifestRead[p].tag \in {"list", "partial"}

\* A stream of mappings and "---" lines only, no two mappings run together;
\* and the mappings of a stream, in its order.
WellFormed(text) ==
    /\ \A p \in 1..Len(text) : text[p].tag \in {"---", "doc"}
    /\ \A p \in 1..(Len(text) - 1) : ~(text[p].tag = "doc" /\ text[p + 1].tag = "doc")
DocsIn(text) ==
    LET isDoc(x) == x.tag = "doc"
        items == SelectSeq(text, isDoc)
    IN [i \in 1..Len(items) |-> items[i].doc]

(***************************************************************************)
(* C15. decodeManifests returns an error and no documents whenever the     *)
(* decoding of a document fails with an error other than end-of-stream,    *)
(* whether or not the failed call produced a value: once the decoder has   *)
(* gone past such a document the run has returned the error. Empty         *)
(* documents are skipped and the end of the stream ends the decoding with  *)
(* the documents in stream order.                                          *)
(***************************************************************************)
C15_FailedDecodeIsReturned ==
    /\ (rel # NoRelease /\ FailedDecodeBehind)
        => /\ pc = "returned"
           /\ err = "failed to unmarshal manifests"
           /\ decoded = <<>>
    /\ (pc = "replace" /\ WellFormed(ManifestRead)) => decoded = DocsIn(ManifestRead)

C17_ReportCountsAffectedDocuments ==
    (last.rule >= 1 /\ last.outcome \in {"removed", "rewritten"})
        => LET n == Cardinality({i \in 1..Len(last.docs) : Affected(i)}) IN
           /\ n > 0 <=> \E k \in 1..Len(reports) : reports[k].rule = last.rule
           /\ ReportedCount(last.rule) = n

(***************************************************************************)
(* C18. The removal loop runs to its end without an out-of-range fault for *)
(* every number and placement of matching documents: two or more matches,  *)
(* a match in the last position, all documents matching.                   *)
(***************************************************************************)
C18_RemovalLoopNeverFaults ==
    /\ last.outcome # "panic"
    /\ err # "panic: slice bounds out of range"

(***************************************************************************)
(* C19. ReplaceManifestUnSupportedAPIs does not modify the sequence passed *)
(* to it: while and after the rules are applied origManifest holds the     *)
(* documents decodeManifests returned, so that the comparison of           *)
(* release.go:61 finds the run changed exactly when the documents after    *)
(* the rules differ from those before them.                                *)
(***************************************************************************)
C19_OrigManifestUntouched ==
    /\ (last.rule >= 1 /\ last.outcome # "panic") => OrigDocs = decoded
    /\ (EngineReturned /\ pc # "rules" /\ last.rule >= 1)
        => (DeepEqual(heap, backing, modLen, backing, origLen) <=> ModifiedDocs = decoded)

(***************************************************************************)
(* C20. decodeManifests terminates on every input stream: a run that is in *)
(* the decoding loop leaves it, by the end of the stream or by an error,   *)
(* also when a document fails to decode and leaves no value, so that the   *)
(* decoder reports the same failure on every later call.                   *)
(***************************************************************************)
C20_DecodeManifestsTerminates == (pc = "decode") ~> (pc # "decode")

====
